---------------------------- MODULE Spec2Model ----------------------------
(***************************************************************************)
(* A model of the ADS7830 ADC server (src/src/ads7830.c): startup          *)
(* (registry connection, print notification, population of the channel     *)
(* table from the channel definitions, optional status dump), the dispatch *)
(* loop (WaitSignal / HandleSignal) and the termination handler.           *)
(*                                                                         *)
(* Every action leaves in `log` the calls it made to the outside world     *)
(* (bus, registry, timers, sink, libc), in program order.                  *)
(***************************************************************************)
EXTENDS Integers, Sequences, FiniteSets, TLC

VARIABLES
    pc,             \* position of main(): open, store, setup, parse, status, run, wait, handle, exit
    state,          \* the ADS7830 state object (struct _ads7830)
    pADS7830State,  \* file-scoped pointer to the state object ("state" or "NULL")
    timers,         \* the POSIX timers of the process, in creation order
    log,            \* the external calls made by the latest step, in program order
    defs,           \* the channel definitions JSON_Iterate has handed to ParseChannel, while it iterates
    signum,         \* run()'s local: the signal WaitSignal returned
    id,             \* run()'s local: the payload WaitSignal returned
    result,         \* return value of the last ParseChannel / WaitSignal / HandleSignal call
    handlers,       \* stack of TerminationHandler activations (innermost last)
    conn,           \* the registry connection: "none", "open", "closed"
    closes,         \* number of VARSERVER_Close calls made on the connection
    blocked,        \* the process's signal mask: the notification signals blocked
    now,            \* the clock (CLOCK_REALTIME), in milliseconds
    armedAt,        \* for each timer, the time of its timer_settime call
    expired         \* the timer-expiry notifications generated so far

vars == << pc, state, pADS7830State, timers, log, defs, signum, id, result,
           handlers, conn, closes, blocked, now, armedAt, expired >>

\* the clock and what it drives
timeVars == << now, armedAt, expired >>

-----------------------------------------------------------------------------
(* Program constants *)

ADS7830_NUM_CHANNELS == 8

Channels == 0 .. (ADS7830_NUM_CHANNELS - 1)

\* signal numbers, kept symbolic
TIMER_NOTIFICATION == "TIMER_NOTIFICATION"
SIG_VAR_CALC == "SIG_VAR_CALC"
SIG_VAR_PRINT == "SIG_VAR_PRINT"
SIG_OTHER == "SIG_OTHER"

\* the invalid variable handle of the variable server
VAR_INVALID == 0

\* return codes, kept symbolic; ERRNO stands for a non-zero errno of open/ioctl,
\* EVARSERVER for a non-zero return code of the variable server
EOK == "EOK"
EINVAL == "EINVAL"
ENOENT == "ENOENT"
ENOTSUP == "ENOTSUP"
ERRNO == "errno"
EVARSERVER == "EVARSERVER"

\* a NULL char pointer
NULLSTR == "<NULL>"

STDOUT_FILENO == 1

-----------------------------------------------------------------------------
(* Bounds and input sets *)

\* at most this many channel definitions in the configuration's "channels" array
MaxDefs == 2

\* at most this many of the 8 bus transactions of one status render fail
MaxFaults == 1

\* bytes the ADC can return, and values an uninitialised uint8_t can hold
DataBytes == {0, 200}

\* how one bus transaction goes
BusOutcomes == {"ok", "open_fail", "ioctl_fail", "write_fail", "read_fail"}

\* the variable server's name table (VAR_FindByName); other names do not resolve
VarTable == ("/HW/ADS7830/A3" :> 5) @@ ("/HW/ADS7830/A0" :> 6) @@ ("/HW/ADS7830/INFO" :> 9)

\* payloads a notification may carry (channel indices, handles, session ids)
Payloads == {-1, 0, 3, 5, 6, 8}

\* values an uninitialised VAR_HANDLE can hold
GarbageHandles == {VAR_INVALID, 5, 8}

\* values an uninitialised int compared against signal numbers can hold
SigValues == {SIG_VAR_CALC, SIG_VAR_PRINT, TIMER_NOTIFICATION, SIG_OTHER}

-----------------------------------------------------------------------------
(* C arithmetic and library functions *)

\* C integer division truncates towards zero
CDiv(a, b) == IF a >= 0 THEN a \div b ELSE -((-a) \div b)

\* a remainder that would drop the part below one second
CRem_wholeSeconds(a, b) == 0

\* C remainder has the sign of the dividend
CRem(a, b) == a - b * CDiv(a, b)

RECURSIVE BitOr(_, _)
\* bitwise OR of two naturals
BitOr(a, b) ==
    IF a = 0 THEN b
    ELSE IF b = 0 THEN a
    ELSE (IF (a % 2 = 1) \/ (b % 2 = 1) THEN 1 ELSE 0) + 2 * BitOr(a \div 2, b \div 2)

Digits == {"0", "1", "2", "3", "4", "5", "6", "7", "8", "9"}

DigitVal == ("0" :> 0) @@ ("1" :> 1) @@ ("2" :> 2) @@ ("3" :> 3) @@ ("4" :> 4) @@
            ("5" :> 5) @@ ("6" :> 6) @@ ("7" :> 7) @@ ("8" :> 8) @@ ("9" :> 9)

RECURSIVE AtoiDigits(_, _, _)
AtoiDigits(s, i, acc) ==
    IF i > Len(s) \/ s[i] \notin Digits THEN acc
    ELSE AtoiDigits(s, i + 1, acc * 10 + DigitVal[s[i]])

RECURSIVE SkipSpace(_, _)
SkipSpace(s, i) == IF i <= Len(s) /\ s[i] = " " THEN SkipSpace(s, i + 1) ELSE i

\* atoi(3): leading blanks, an optional sign, then decimal digits up to the
\* first character that is no digit; a string is a tuple of characters
atoi(s) ==
    LET i == SkipSpace(s, 1) IN
    IF i <= Len(s) /\ s[i] = "-" THEN -AtoiDigits(s, i + 1, 0)
    ELSE IF i <= Len(s) /\ s[i] = "+" THEN AtoiDigits(s, i + 1, 0)
    ELSE AtoiDigits(s, i, 0)

\* (VAR_HANDLE)id: the conversion of an int to the 32 bit unsigned handle type
\* keeps the 32 bits.  Handles are only ever compared for equality, so a handle
\* is represented by the int with the same bits (0xFFFFFFFF by -1).
CastHandle(i) == i

\* VAR_FindByName
VAR_FindByName(name) == IF name \in DOMAIN VarTable THEN VarTable[name] ELSE VAR_INVALID

\* one entry of the log of external calls
Ev(op, ch, h, val, ok, txt) ==
    [op |-> op, ch |-> ch, h |-> h, val |-> val, ok |-> ok, txt |-> txt]

-----------------------------------------------------------------------------
(* The bus reader *)

\* a table that would select the physical channels in logical order
chval_unpermuted == <<0, 1, 2, 3, 4, 5, 6, 7>>

\* physical channel select values of the logical channels
chval == <<0, 4, 1, 5, 2, 6, 3, 7>>

\* the command byte ReadChannel composes for a channel in 0..7 (uint8_t)
CommandByte(channel) ==
    LET single_ended == 128
        dac_on_ref_off == 4
        ch == (chval[channel + 1] * 16) % 256
    IN  BitOr(BitOr(single_ended, dac_on_ref_off), ch) % 256

\* a bus reader that would leave the connection open when the address set fails
ReadChannel_leakOnAddressFailure(st, channel, data, oc, byte) ==
    IF st.device # NULLSTR /\ channel >= 0 /\ channel < ADS7830_NUM_CHANNELS
    THEN
        LET cmd == CommandByte(channel)
            reuse == (st.fd = -1)
            opened == (~reuse) /\ oc # "open_fail"
            fd == IF reuse THEN st.fd ELSE IF opened THEN 3 ELSE -1
            do_close == opened /\ oc # "ioctl_fail"
            evOpen == IF reuse THEN <<>>
                      ELSE << Ev("open", channel, fd, 0, opened, st.device) >>
            addrOk == oc # "ioctl_fail"
            evIoctl == << Ev("ioctl", channel, fd, st.address, addrOk, "I2C_SLAVE") >>
            evXfer == IF addrOk
                      THEN << Ev("write", channel, fd, cmd, oc # "write_fail", ""),
                              Ev("read", channel, fd, byte, oc # "read_fail", "") >>
                      ELSE <<>>
            evClose == IF do_close THEN << Ev("close", channel, fd, 0, TRUE, "") >>
                       ELSE <<>>
        IN  IF fd # -1
            THEN [ result |-> IF addrOk THEN EOK ELSE ERRNO,
                   data   |-> IF addrOk /\ oc # "read_fail" THEN byte ELSE data,
                   log    |-> evOpen \o evIoctl \o evXfer \o evClose ]
            ELSE [ result |-> ERRNO, data |-> data, log |-> evOpen ]
    ELSE [ result |-> EINVAL, data |-> data, log |-> <<>> ]

\* ReadChannel(pADS7830, channel, &data).  st is the state object, data the
\* value *data holds on entry, oc how the bus behaves during this call and
\* byte the byte the device returns.  Yields the return value, the value of
\* *data on return and the bus calls made.
ReadChannel(st, channel, data, oc, byte) ==
    IF st.device # NULLSTR /\ channel >= 0 /\ channel < ADS7830_NUM_CHANNELS
    THEN
        LET cmd == CommandByte(channel)
            reuse == (st.fd = -1)
            opened == (~reuse) /\ oc # "open_fail"
            fd == IF reuse THEN st.fd ELSE IF opened THEN 3 ELSE -1
            do_close == opened
            evOpen == IF reuse THEN <<>>
                      ELSE << Ev("open", channel, fd, 0, opened, st.device) >>
            addrOk == oc # "ioctl_fail"
            evIoctl == << Ev("ioctl", channel, fd, st.address, addrOk, "I2C_SLAVE") >>
            evXfer == IF addrOk
                      THEN << Ev("write", channel, fd, cmd, oc # "write_fail", ""),
                              Ev("read", channel, fd, byte, oc # "read_fail", "") >>
                      ELSE <<>>
            evClose == IF do_close THEN << Ev("close", channel, fd, 0, TRUE, "") >>
                       ELSE <<>>
        IN  IF fd # -1
            THEN [ result |-> IF addrOk THEN EOK ELSE ERRNO,
                   data   |-> IF addrOk /\ oc # "read_fail" THEN byte ELSE data,
                   log    |-> evOpen \o evIoctl \o evXfer \o evClose ]
            ELSE [ result |-> ERRNO, data |-> data, log |-> evOpen ]
    ELSE [ result |-> EINVAL, data |-> data, log |-> <<>> ]

-----------------------------------------------------------------------------
(* Sampling and channel lookup *)

\* SampleChannel(pADS7830, channel).  e is the environment of the call:
\* e.f[channel] how the bus behaves, e.byte the byte the device returns,
\* e.garbage the value the uninitialised local `data` holds, e.setOk whether
\* VAR_Set succeeds.
SampleChannel(st, channel, e) ==
    IF channel >= 0 /\ channel < ADS7830_NUM_CHANNELS
    THEN
        LET hVar == st.channels[channel].hVar IN
        IF hVar # VAR_INVALID
        THEN
            LET r == ReadChannel(st, channel, e.garbage, e.f[channel], e.byte) IN
            IF r.result = EOK
            THEN [ result |-> IF e.setOk THEN EOK ELSE EVARSERVER,
                   log    |-> r.log \o
                              << Ev("VAR_Set", channel, hVar, r.data, e.setOk,
                                    "VARTYPE_UINT16") >> ]
            ELSE [ result |-> r.result, log |-> r.log ]
        ELSE [ result |-> EINVAL, log |-> <<>> ]
    ELSE [ result |-> EINVAL, log |-> <<>> ]

RECURSIVE FindFrom_last(_, _, _)
\* a scan that would go on to the last match
FindFrom_last(st, hVar, i) ==
    IF i >= ADS7830_NUM_CHANNELS THEN -1
    ELSE IF st.channels[i].hVar = hVar /\ FindFrom_last(st, hVar, i + 1) = -1 THEN i
    ELSE FindFrom_last(st, hVar, i + 1)

RECURSIVE FindFrom(_, _, _)
\* the scan of FindChannel from index i on
FindFrom(st, hVar, i) ==
    IF i >= ADS7830_NUM_CHANNELS THEN -1
    ELSE IF st.channels[i].hVar = hVar THEN i
    ELSE FindFrom(st, hVar, i + 1)

\* FindChannel(pADS7830, hVar)
FindChannel(st, hVar) ==
    IF hVar # VAR_INVALID THEN FindFrom(st, hVar, 0) ELSE -1

-----------------------------------------------------------------------------
(* The status renderer *)

BoolStr(b) == IF b THEN "true" ELSE "false"

RECURSIVE PrintChannels_abortOnFailure(_, _, _, _)
\* a channel loop that would stop at the first channel whose read fails
PrintChannels_abortOnFailure(st, fd, ch, e) ==
    IF ch >= ADS7830_NUM_CHANNELS THEN <<>>
    ELSE
        LET channel == st.channels[ch]
            r == ReadChannel(st, ch, 0, e.f[ch], e.byte)
            line == Ev("dprintf", ch, fd, r.data, channel.interval # 0, channel.name)
        IN  IF r.result # EOK THEN r.log
            ELSE r.log \o << line >> \o PrintChannels_abortOnFailure(st, fd, ch + 1, e)

RECURSIVE PrintChannels_boundOnly(_, _, _, _)
\* a channel loop that would read the bound channels only
PrintChannels_boundOnly(st, fd, ch, e) ==
    IF ch >= ADS7830_NUM_CHANNELS THEN <<>>
    ELSE
        LET channel == st.channels[ch]
            r == IF channel.hVar # VAR_INVALID
                 THEN ReadChannel(st, ch, 0, e.f[ch], e.byte)
                 ELSE [ result |-> EINVAL, data |-> 0, log |-> <<>> ]
            line == Ev("dprintf", ch, fd, r.data, channel.interval # 0, channel.name)
        IN  r.log \o << line >> \o PrintChannels_boundOnly(st, fd, ch + 1, e)

RECURSIVE PrintChannels(_, _, _, _)
\* the channel loop of PrintStatus from channel ch on
PrintChannels(st, fd, ch, e) ==
    IF ch >= ADS7830_NUM_CHANNELS THEN <<>>
    ELSE
        LET channel == st.channels[ch]
            r == ReadChannel(st, ch, 0, e.f[ch], e.byte)
            line == IF channel.interval # 0
                    THEN Ev("dprintf", ch, fd, r.data, TRUE, channel.name)
                    ELSE Ev("dprintf", ch, fd, r.data, FALSE, channel.name)
        IN  r.log \o << line >> \o PrintChannels(st, fd, ch + 1, e)

\* PrintStatus(pADS7830, fd).  A line of output is a "dprintf" entry: the seven
\* heading lines carry ch = -1 and their text, a channel line carries its
\* channel, the raw byte (val), whether the interval is shown (ok) and the
\* channel's name (txt).
PrintStatus(st, fd, e) ==
    IF fd # -1
    THEN [ result |-> EINVAL,
           log |-> << Ev("dprintf", -1, fd, 0, TRUE, "ADS7830 Status:"),
                      Ev("dprintf", -1, fd, 0, TRUE, "Configuration File: " \o st.pFileName),
                      Ev("dprintf", -1, fd, 0, TRUE, "Device: " \o st.device),
                      Ev("dprintf", -1, fd, st.address, TRUE, "Address: 0x"),
                      Ev("dprintf", -1, fd, 0, TRUE, "Exclusive: " \o BoolStr(st.exclusive)),
                      Ev("dprintf", -1, fd, 0, TRUE, "Verbose: " \o BoolStr(st.verbose)),
                      Ev("dprintf", -1, fd, 0, TRUE, "Channels:") >>
                   \o PrintChannels(st, fd, 0, e) ]
    ELSE [ result |-> EINVAL, log |-> <<>> ]

-----------------------------------------------------------------------------
(* The dispatcher *)

\* HandleSignal(pADS7830, signum, id).  The function never reads its signum
\* parameter: it branches on the local `sig`, which is never assigned, so sig
\* is any value.  e is the environment of the call (see SampleChannel), with
\* e.sessOk whether VAR_OpenPrintSession yields a sink.
HandleSignal(st, sgn, ident, sig, e) ==
    IF sig = SIG_VAR_CALC
    THEN
        LET hVar == CastHandle(ident)
            ch == FindChannel(st, hVar)
        IN  IF ch >= 0 /\ ch < ADS7830_NUM_CHANNELS
            THEN SampleChannel(st, ch, e)
            ELSE [ result |-> ENOENT, log |-> <<>> ]
    ELSE IF sig = SIG_VAR_PRINT
    THEN
        LET fd == IF e.sessOk THEN 4 ELSE -1
            p == PrintStatus(st, fd, e)
        IN  [ result |-> EOK,
              log |-> << Ev("VAR_OpenPrintSession", -1, fd, ident, e.sessOk, "") >>
                      \o p.log
                      \o << Ev("VAR_ClosePrintSession", -1, fd, ident, TRUE, "") >> ]
    ELSE IF sig = TIMER_NOTIFICATION
    THEN
        LET ch == ident IN
        IF ch >= 0 /\ ch < ADS7830_NUM_CHANNELS
        THEN SampleChannel(st, ch, e)
        ELSE [ result |-> ENOENT, log |-> <<>> ]
    ELSE [ result |-> ENOTSUP, log |-> <<>> ]

-----------------------------------------------------------------------------
(* The timer manager and the population of the channel table *)

\* JSON_GetStr(pNode, key) != NULL : the node of a channel definition carries
\* the set of its keys and their string values
HasKey(node, key) == key \in node.keys

\* timer_settime accepts an itimerspec only with tv_sec >= 0 and
\* 0 <= tv_nsec < 10^9; a zero it_value leaves the timer disarmed
ValidTimespec(secs, nsec) == secs >= 0 /\ nsec >= 0 /\ nsec < 1000000000

\* CreateTimer(pADS7830, channel, timeoutms).  tm is the process's timers.
\* timer_create makes a new, disarmed timer whose expiry carries `channel`
\* and stores its id in the channel entry; timer_settime arms it.
CreateTimer(st, tm, channel, timeoutms) ==
    LET secs == CDiv(timeoutms, 1000)
        msecs == CRem(timeoutms, 1000)
        nsec == msecs * 1000000
    IN  IF channel >= 0 /\ channel < ADS7830_NUM_CHANNELS
        THEN
            LET tid == Len(tm) + 1
                ok == ValidTimespec(secs, nsec)
                timer == [ payload |-> channel,
                           sec     |-> IF ok THEN secs ELSE 0,
                           nsec    |-> IF ok THEN nsec ELSE 0,
                           vsec    |-> IF ok THEN secs ELSE 0,
                           vnsec   |-> IF ok THEN nsec ELSE 0,
                           armed   |-> ok /\ (secs # 0 \/ nsec # 0) ]
            IN  [ result |-> EOK,
                  state  |-> [st EXCEPT !.channels[channel].timer = tid],
                  timers |-> Append(tm, timer),
                  log    |-> << Ev("timer_create", channel, tid, 0, TRUE, "SIGEV_SIGNAL"),
                                Ev("timer_settime", channel, tid, timeoutms, ok, "") >> ]
        ELSE [ result |-> ENOENT, state |-> st, timers |-> tm, log |-> <<>> ]

\* a channel index that would default to 0 when the attribute is missing
ChannelIndex_missingIsZero(node) ==
    IF HasKey(node, "channel") THEN atoi(node.channel) ELSE 0

\* ParseChannel: the mandatory channel index of a definition
ChannelIndex(node) ==
    IF HasKey(node, "channel") THEN atoi(node.channel) ELSE -1

\* ParseChannel(pNode, arg).  garbage is the value the local hVar holds when
\* it is read without having been assigned.
ParseChannel(st, tm, node, garbage) ==
    LET channel == ChannelIndex(node) IN
    IF channel >= 0 /\ channel < ADS7830_NUM_CHANNELS
    THEN
        LET hasInterval == HasKey(node, "interval")
            interval == IF hasInterval THEN atoi(node.interval) ELSE 0
            st1 == [st EXCEPT !.channels[channel].interval = interval]
            ct == IF hasInterval
                  THEN CreateTimer(st1, tm, channel, interval)
                  ELSE [ result |-> EINVAL, state |-> st1, timers |-> tm, log |-> <<>> ]
            hasVar == HasKey(node, "var")
            hVar == IF hasVar THEN VAR_FindByName(node.var) ELSE garbage
            st2 == IF hasVar
                   THEN [ct.state EXCEPT !.channels[channel].name = node.var,
                                         !.channels[channel].hVar = hVar]
                   ELSE [ct.state EXCEPT !.channels[channel].hVar = VAR_INVALID]
            evFind == IF hasVar
                      THEN << Ev("VAR_FindByName", channel, hVar, 0, hVar # VAR_INVALID, node.var) >>
                      ELSE <<>>
            evNotify == IF interval = 0
                        THEN << Ev("VAR_Notify", channel, hVar, 0, hVar # VAR_INVALID,
                                   "NOTIFY_CALC") >>
                        ELSE <<>>
        IN  [ result |-> EOK, state |-> st2, timers |-> ct.timers,
              log |-> ct.log \o evFind \o evNotify ]
    ELSE [ result |-> EOK, state |-> st, timers |-> tm, log |-> <<>> ]

\* SetupPrintNotifications(pADS7830)
SetupPrintNotifications(st) ==
    LET hVar == VAR_FindByName("/HW/ADS7830/INFO") IN
    IF hVar # VAR_INVALID
    THEN [ result |-> EOK,
           log |-> << Ev("VAR_FindByName", -1, hVar, 0, TRUE, "/HW/ADS7830/INFO"),
                      Ev("VAR_Notify", -1, hVar, 0, TRUE, "NOTIFY_PRINT") >> ]
    ELSE [ result |-> ENOENT,
           log |-> << Ev("VAR_FindByName", -1, hVar, 0, FALSE, "/HW/ADS7830/INFO") >> ]

\* ProcessOptions: -v and -o set their flags; no option sets `exclusive`
ProcessOptions(st, opts) ==
    [st EXCEPT !.verbose = ("v" \in opts), !.output = ("o" \in opts)]

-----------------------------------------------------------------------------
(* Inputs *)

\* a channel definition object of the configuration: its keys and their values
Node(keys, line, channel, interval, var) ==
    [keys |-> keys, line |-> line, channel |-> channel, interval |-> interval,
     var |-> var]

\* the strings a definition gives as its index, and as its interval
IndexStrings == { <<"3">>, <<"8">>, <<"-", "1">> }
IntervalStrings == { <<"0">>, <<"5", "0", "0">>, <<"-", "5">> }
VarNames == { "/HW/ADS7830/A3", "/HW/ADS7830/XX" }

\* every shape of definition: each of "channel", "interval", "var" present or
\* not (the value of an absent key is never read and is fixed)
StartupDefs ==
    { n \in [keys : SUBSET {"channel", "interval", "var"}, line : {<<>>},
             channel : IndexStrings, interval : IntervalStrings, var : VarNames] :
        /\ ("channel" \notin n.keys => n.channel = <<"3">>)
        /\ ("interval" \notin n.keys => n.interval = <<"0">>)
        /\ ("var" \notin n.keys => n.var = "/HW/ADS7830/XX") }

\* the definitions of the end-to-end scenarios: a periodic channel 3, an
\* on-demand channel 0, an index out of range, and the two kinds of definition
\* of the documented example (file header), which name their index "line"
ConfigDefs ==
    { Node({"channel", "var", "interval"}, <<>>, <<"3">>, <<"1", "0", "0", "0">>,
           "/HW/ADS7830/A3"),
      Node({"channel", "var"}, <<>>, <<"0">>, <<>>, "/HW/ADS7830/A0"),
      Node({"channel", "var"}, <<>>, <<"8">>, <<>>, "/HW/ADS7830/A3"),
      Node({"line", "var", "mode"}, <<"0">>, <<>>, <<>>, "/HW/ADS7830/A0"),
      Node({"line", "var", "mode", "interval"}, <<"3">>, <<>>, <<"1", "0", "0", "0">>,
           "/HW/ADS7830/A3") }

\* command lines: the options given
OptionSets == { {}, {"o"} }

\* the environments of one SampleChannel call
SampleEnvs ==
    { [f |-> [c \in Channels |-> oc], byte |-> b, garbage |-> g, setOk |-> so,
       sessOk |-> TRUE] :
        oc \in BusOutcomes, b \in DataBytes, g \in DataBytes, so \in BOOLEAN }

\* how the 8 bus transactions of one render go: at most MaxFaults of them
\* fail, all at the same step
FaultMaps ==
    { [c \in Channels |-> IF c \in bad THEN oc ELSE "ok"] :
        bad \in { S \in SUBSET Channels : Cardinality(S) <= MaxFaults },
        oc \in BusOutcomes \ {"ok"} }

\* the environments of one PrintStatus call
RenderEnvs ==
    { [f |-> fm, byte |-> b, garbage |-> 0, setOk |-> TRUE, sessOk |-> TRUE] :
        fm \in FaultMaps, b \in DataBytes }

\* the environments of one HandleSignal call that takes the branch of sig
Envs(sig) ==
    IF sig = SIG_VAR_PRINT
    THEN RenderEnvs \cup
         { [f |-> [c \in Channels |-> "ok"], byte |-> 0, garbage |-> 0, setOk |-> TRUE,
            sessOk |-> FALSE] }
    ELSE SampleEnvs

-----------------------------------------------------------------------------
(* The program *)

NULLPTR == "NULL"

\* the state object after memset, ProcessOptions and the reading of "device"
\* and "address" ("4b", base 16) from the configuration; `exclusive` is never
\* set, so main does not open the bus device and fd keeps the value 0
InitialState(opts) ==
    ProcessOptions(
        [ running    |-> FALSE,
          pFileName  |-> "ads7830.json",
          device     |-> "/dev/i2c-1",
          exclusive  |-> FALSE,
          verbose    |-> FALSE,
          output     |-> FALSE,
          fd         |-> 0,
          hVarServer |-> NULLPTR,
          address    |-> 75,
          channels   |-> [c \in Channels |->
                            [channel |-> 0, name |-> NULLSTR, hVar |-> 0,
                             interval |-> 0, timer |-> 0]] ],
        opts)

Init ==
    /\ pc = "open"
    /\ state \in { InitialState(opts) : opts \in OptionSets }
    /\ pADS7830State = "state"
    /\ timers = <<>>
    /\ log = <<>>
    /\ defs = <<>>
    /\ signum = SIG_OTHER
    /\ id = 0
    /\ result = EOK
    /\ handlers = <<>>
    /\ conn = "none"
    /\ closes = 0
    /\ blocked = {}
    /\ now = 0
    /\ armedAt = <<>>
    /\ expired = <<>>

\* a call that is logged by its name only
Call(op) == Ev(op, -1, 0, 0, TRUE, "")

\* main-line code runs while no termination handler is active
MainRuns == handlers = <<>> /\ pc # "exit"

\* main: VARSERVER_Open() returns a connection, or NULL and main returns
VarserverOpen ==
    /\ MainRuns /\ pc = "open"
    /\ \E ok \in BOOLEAN :
        /\ conn' = IF ok THEN "open" ELSE "none"
        /\ pc' = IF ok THEN "store" ELSE "exit"
        /\ log' = << Ev("VARSERVER_Open", -1, 0, 0, ok, "") >>
    /\ UNCHANGED << state, pADS7830State, timers, defs, signum, id, result,
                    handlers, closes >>
    /\ UNCHANGED << blocked, now, armedAt, expired >>

\* main: the store of the returned handle into state.hVarServer
StoreHandle ==
    /\ MainRuns /\ pc = "store"
    /\ state' = [state EXCEPT !.hVarServer = "hVarServer"]
    /\ pc' = "setup"
    /\ log' = <<>>
    /\ UNCHANGED << pADS7830State, timers, defs, signum, id, result,
                    handlers, conn, closes >>
    /\ UNCHANGED << blocked, now, armedAt, expired >>

\* main: SetupPrintNotifications( &state )
SetupPrint ==
    /\ MainRuns /\ pc = "setup"
    /\ log' = SetupPrintNotifications(state).log
    /\ pc' = "parse"
    /\ UNCHANGED << state, pADS7830State, timers, defs, signum, id, result,
                    handlers, conn, closes >>
    /\ UNCHANGED << blocked, now, armedAt, expired >>

\* JSON_Iterate hands the next channel definition, one of D, to ParseChannel
ParseChannelStep(D) ==
    /\ MainRuns /\ pc = "parse" /\ Len(defs) < MaxDefs
    /\ \E node \in D, garbage \in GarbageHandles :
        LET r == ParseChannel(state, timers, node, garbage) IN
        /\ state' = r.state
        /\ timers' = r.timers
        /\ log' = r.log
        /\ result' = r.result
        /\ defs' = Append(defs, node)
        /\ armedAt' = [i \in 1 .. Len(r.timers) |->
                          IF i <= Len(armedAt) THEN armedAt[i] ELSE now]
    /\ UNCHANGED << pc, pADS7830State, signum, id, handlers, conn, closes >>
    /\ UNCHANGED << blocked, now, expired >>

\* main: the array is exhausted and JSON_Iterate returns (its cursor is gone);
\* the status goes to stdout if -o was given
StartupStatus ==
    /\ MainRuns /\ pc = "parse"
    /\ \E e \in RenderEnvs :
        log' = IF state.output THEN PrintStatus(state, STDOUT_FILENO, e).log ELSE <<>>
    /\ defs' = <<>>
    /\ pc' = "run"
    /\ UNCHANGED << state, pADS7830State, timers, signum, id, result,
                    handlers, conn, closes >>
    /\ UNCHANGED << blocked, now, armedAt, expired >>

\* run: running = true
RunStart ==
    /\ MainRuns /\ pc = "run"
    /\ state' = [state EXCEPT !.running = TRUE]
    /\ pc' = "loop"
    /\ log' = <<>>
    /\ UNCHANGED << pADS7830State, timers, defs, signum, id, result,
                    handlers, conn, closes >>
    /\ UNCHANGED << blocked, now, armedAt, expired >>

\* run: the test of the loop.  While `running` is true the loop goes on to
\* WaitSignal; were it false, run would return and main would close the
\* registry connection and return.
LoopTest ==
    /\ MainRuns /\ pc = "loop"
    /\ pc' = IF state.running THEN "wait" ELSE "exit"
    /\ conn' = IF state.running THEN conn ELSE "closed"
    /\ closes' = IF state.running THEN closes ELSE closes + 1
    /\ log' = IF state.running THEN <<>> ELSE << Call("VARSERVER_Close") >>
    /\ UNCHANGED << state, pADS7830State, timers, defs, signum, id, result,
                    handlers >>
    /\ UNCHANGED << blocked, now, armedAt, expired >>

\* the signals WaitSignal's sigwaitinfo can return
WaitSet == { TIMER_NOTIFICATION, SIG_VAR_CALC, SIG_VAR_PRINT }

\* run: WaitSignal( &signum, &id )
WaitSignal ==
    /\ MainRuns /\ pc = "wait"
    /\ \E s \in WaitSet, p \in Payloads :
        /\ signum' = s
        /\ id' = p
    /\ result' = EOK
    /\ blocked' = blocked \cup WaitSet
    /\ log' = << Call("sigprocmask"), Call("sigwaitinfo") >>
    /\ pc' = "handle"
    /\ UNCHANGED << state, pADS7830State, timers, defs, handlers, conn, closes >>
    /\ UNCHANGED << now, armedAt, expired >>

\* a dispatch step that would clear the running flag when handling fails
HandleSignalStep_stopOnFailure ==
    /\ MainRuns /\ pc = "handle"
    /\ \E sig \in SigValues : \E e \in Envs(sig) :
        LET r == HandleSignal(state, signum, id, sig, e) IN
        /\ log' = r.log
        /\ result' = r.result
        /\ state' = [state EXCEPT !.running = (r.result = EOK)]
    /\ pc' = "loop"
    /\ UNCHANGED << pADS7830State, timers, defs, signum, id, handlers,
                    conn, closes >>
    /\ UNCHANGED << blocked, now, armedAt, expired >>

\* a dispatch step that would keep the connection a read opened in the state
HandleSignalStep_keepsConnection ==
    /\ MainRuns /\ pc = "handle"
    /\ \E sig \in SigValues : \E e \in Envs(sig) :
        LET r == HandleSignal(state, signum, id, sig, e) IN
        /\ log' = r.log
        /\ result' = r.result
        /\ state' = IF \E i \in 1 .. Len(r.log) : r.log[i].op = "open" /\ r.log[i].ok
                     THEN [state EXCEPT !.fd = 3]
                     ELSE state
    /\ pc' = "loop"
    /\ UNCHANGED << pADS7830State, timers, defs, signum, id, handlers,
                    conn, closes >>
    /\ UNCHANGED << blocked, now, armedAt, expired >>

\* run: HandleSignal( pADS7830, signum, id )
HandleSignalStep ==
    /\ MainRuns /\ pc = "handle"
    /\ \E sig \in SigValues : \E e \in Envs(sig) :
        LET r == HandleSignal(state, signum, id, sig, e) IN
        /\ log' = r.log
        /\ result' = r.result
    /\ pc' = "loop"
    /\ UNCHANGED << state, pADS7830State, timers, defs, signum, id, handlers,
                    conn, closes >>
    /\ UNCHANGED << blocked, now, armedAt, expired >>

-----------------------------------------------------------------------------
(* The termination handler.  SIGTERM and SIGINT share the handler, installed *)
(* with an empty sa_mask: while it runs for one of them the other is not     *)
(* blocked.  It runs on the main thread, which it never resumes (exit).      *)

TermSignals == { "SIGTERM", "SIGINT" }

\* a termination signal is delivered: TerminationHandler is entered (syslog)
Signal ==
    /\ pc # "exit"
    /\ \E s \in TermSignals :
        /\ \A i \in 1 .. Len(handlers) : handlers[i].sig # s
        /\ handlers' = Append(handlers, [sig |-> s, at |-> "entry"])
    /\ log' = << Call("syslog") >>
    /\ UNCHANGED << pc, state, pADS7830State, timers, defs, signum, id,
                    result, conn, closes >>
    /\ UNCHANGED << blocked, now, armedAt, expired >>

\* TerminationHandler up to the return of VARSERVER_Close, or to exit when
\* there is nothing to close
HandlerClose ==
    /\ pc # "exit" /\ handlers # <<>>
    /\ handlers[Len(handlers)].at = "entry"
    /\ IF pADS7830State # NULLPTR /\ state.hVarServer # NULLPTR
       THEN /\ closes' = closes + 1
            /\ conn' = "closed"
            /\ handlers' = [handlers EXCEPT ![Len(handlers)].at = "closed"]
            /\ log' = << Call("VARSERVER_Close") >>
            /\ pc' = pc
       ELSE /\ pc' = "exit"
            /\ log' = << Call("exit") >>
            /\ UNCHANGED << closes, conn, handlers >>
    /\ UNCHANGED << state, pADS7830State, timers, defs, signum, id, result >>
    /\ UNCHANGED << blocked, now, armedAt, expired >>

\* TerminationHandler after VARSERVER_Close: the pointers are cleared, exit
HandlerExit ==
    /\ pc # "exit" /\ handlers # <<>>
    /\ handlers[Len(handlers)].at = "closed"
    /\ state' = [state EXCEPT !.hVarServer = NULLPTR]
    /\ pADS7830State' = NULLPTR
    /\ pc' = "exit"
    /\ log' = << Call("exit") >>
    /\ UNCHANGED << timers, defs, signum, id, result, handlers, conn, closes >>
    /\ UNCHANGED << blocked, now, armedAt, expired >>

-----------------------------------------------------------------------------
(* Specifications *)

\* the whole program, configured with the definitions of the scenarios
Next ==
    \/ VarserverOpen
    \/ StoreHandle
    \/ SetupPrint
    \/ ParseChannelStep(ConfigDefs)
    \/ StartupStatus
    \/ RunStart
    \/ LoopTest
    \/ WaitSignal
    \/ HandleSignalStep
    \/ Signal
    \/ HandlerClose
    \/ HandlerExit

Spec == Init /\ [][Next]_vars

\* startup up to the end of the iteration over the channel definitions, with
\* every shape of definition
NextStartup ==
    \/ VarserverOpen
    \/ StoreHandle
    \/ SetupPrint
    \/ ParseChannelStep(StartupDefs)

SpecStartup == Init /\ [][NextStartup]_vars

\* ReadChannel on its own: the controller either holds no long-lived bus
\* connection (fd as memset leaves it, the only case main produces since no
\* option sets `exclusive`) or holds the one main's exclusive open would yield;
\* the channel argument is any index from -1 to 8.
ExclusiveFd == 5
BusStates ==
    { [InitialState({}) EXCEPT !.exclusive = x[1], !.fd = x[2]] :
        x \in { <<FALSE, 0>>, <<TRUE, ExclusiveFd>> } }
BusChannels == -1 .. ADS7830_NUM_CHANNELS

InitBus ==
    /\ pc = "call"
    /\ state \in BusStates
    /\ id \in BusChannels
    /\ pADS7830State = "state"
    /\ timers = <<>>
    /\ log = <<>>
    /\ defs = <<>>
    /\ signum = SIG_OTHER
    /\ result = EINVAL
    /\ handlers = <<>>
    /\ conn = "none"
    /\ closes = 0
    /\ blocked = {}
    /\ now = 0
    /\ armedAt = <<>>
    /\ expired = <<>>

\* one call ReadChannel( &state, id, &data ) with *data = 0 on entry
ReadChannelCall ==
    /\ pc = "call"
    /\ \E oc \in BusOutcomes : \E byte \in DataBytes :
        LET r == ReadChannel(state, id, 0, oc, byte) IN
        /\ log' = r.log
        /\ result' = r.result
    /\ pc' = "return"
    /\ UNCHANGED << state, pADS7830State, timers, defs, signum, id, handlers,
                    conn, closes >>
    /\ UNCHANGED << blocked, now, armedAt, expired >>

NextBus == ReadChannelCall

SpecBus == InitBus /\ [][NextBus]_vars

\* startup with definitions whose intervals lie on both sides of one second
\* and reach up to INT_MAX
PositiveIntervals ==
    { <<"1">>, <<"9", "9", "9">>, <<"1", "0", "0", "0">>, <<"1", "0", "0", "1">>,
      <<"1", "5", "0", "0">>, <<"6", "0", "0", "0", "0">>,
      <<"2", "1", "4", "7", "4", "8", "3", "6", "4", "7">> }
IntervalDefs ==
    { Node({"channel", "var", "interval"}, <<>>, c, i, "/HW/ADS7830/A3") :
        c \in { <<"3">>, <<"7">> }, i \in PositiveIntervals }

NextInterval ==
    \/ VarserverOpen
    \/ StoreHandle
    \/ SetupPrint
    \/ ParseChannelStep(IntervalDefs)

SpecInterval == Init /\ [][NextInterval]_vars

\* PrintStatus on its own: the controller states ProcessOptions can leave, or
\* no state object, and the sinks stdout, a print session's descriptor and -1
RenderSinks == {-1, STDOUT_FILENO, 4}

InitRender ==
    /\ pc = "call"
    /\ state \in { InitialState(opts) : opts \in OptionSets }
    /\ pADS7830State \in {"state", NULLPTR}
    /\ id \in RenderSinks
    /\ timers = <<>>
    /\ log = <<>>
    /\ defs = <<>>
    /\ signum = SIG_OTHER
    /\ result = -1
    /\ handlers = <<>>
    /\ conn = "none"
    /\ closes = 0
    /\ blocked = {}
    /\ now = 0
    /\ armedAt = <<>>
    /\ expired = <<>>

\* one call PrintStatus( pADS7830, id ); with pADS7830 NULL the guard fails
\* before anything is read or written
PrintStatusCall ==
    /\ pc = "call"
    /\ \E e \in RenderEnvs :
        LET p == IF pADS7830State = NULLPTR
                 THEN PrintStatus(state, -1, e)
                 ELSE PrintStatus(state, id, e) IN
        /\ log' = p.log
        /\ result' = p.result
    /\ pc' = "return"
    /\ UNCHANGED << state, pADS7830State, timers, defs, signum, id, handlers,
                    conn, closes, blocked, now, armedAt, expired >>

NextRender == PrintStatusCall

SpecRender == InitRender /\ [][NextRender]_vars

\* FindChannel on its own: the tables in which every channel is unbound or
\* bound to one of two variables, and the handles of those variables, the
\* invalid handle, and handles bound to no channel
FindHandles == {5, 6}
FindTables ==
    { [InitialState({}) EXCEPT !.channels =
          [c \in Channels |-> [InitialState({}).channels[c] EXCEPT !.hVar = t[c]]]] :
        t \in [Channels -> {VAR_INVALID} \cup FindHandles] }

InitFind ==
    /\ pc = "call"
    /\ state \in FindTables
    /\ id \in {VAR_INVALID, -1, 8} \cup FindHandles
    /\ pADS7830State = "state"
    /\ timers = <<>>
    /\ log = <<>>
    /\ defs = <<>>
    /\ signum = SIG_VAR_CALC
    /\ result = -1
    /\ handlers = <<>>
    /\ conn = "none"
    /\ closes = 0
    /\ blocked = {}
    /\ now = 0
    /\ armedAt = <<>>
    /\ expired = <<>>

\* one call FindChannel( &state, (VAR_HANDLE)id )
FindChannelCall ==
    /\ pc = "call"
    /\ result' = FindChannel(state, CastHandle(id))
    /\ pc' = "return"
    /\ UNCHANGED << state, pADS7830State, timers, log, defs, signum, id,
                    handlers, conn, closes, blocked, now, armedAt, expired >>

NextFind == FindChannelCall

SpecFind == InitFind /\ [][NextFind]_vars

-----------------------------------------------------------------------------
(* Time.  A POSIX timer armed by timer_settime (flags 0, so relative) at     *)
(* time t with it_value v > 0 and it_interval p expires at t + v and, when   *)
(* p > 0, every p after that; each expiry generates one notification that    *)
(* carries the timer's sigev_value.                                          *)

\* the last instant of the clock
MaxTime == 6

\* it_value and it_interval of a timer, in milliseconds
ItValueMs(t) == t.vsec * 1000 + t.vnsec \div 1000000
ItIntervalMs(t) == t.sec * 1000 + t.nsec \div 1000000

\* timer i expires at time t
Due(i, t) ==
    /\ timers[i].armed
    /\ LET d == t - armedAt[i]
           v == ItValueMs(timers[i])
           p == ItIntervalMs(timers[i])
       IN  \/ d = v
           \/ p > 0 /\ d > v /\ (d - v) % p = 0

\* the notifications generated at time t, in the order of the timers
DueAt(t) ==
    SelectSeq([i \in 1 .. Len(timers) |->
                  [timer |-> i, payload |-> timers[i].payload, at |-> t]],
              LAMBDA e : Due(e.timer, t))

\* one millisecond passes
Tick ==
    /\ pc # "exit" /\ now < MaxTime
    /\ now' = now + 1
    /\ expired' = expired \o DueAt(now + 1)
    /\ UNCHANGED << pc, state, pADS7830State, timers, log, defs, signum, id,
                    result, handlers, conn, closes, blocked, armedAt >>

\* channel definitions with intervals of a few milliseconds
TimerDefs ==
    { Node({"channel", "var", "interval"}, <<>>, <<"3">>, <<"2">>, "/HW/ADS7830/A3"),
      Node({"channel", "var", "interval"}, <<>>, <<"3">>, <<"3">>, "/HW/ADS7830/A3"),
      Node({"channel", "var", "interval"}, <<>>, <<"0">>, <<"2">>, "/HW/ADS7830/A0"),
      Node({"channel", "var"}, <<>>, <<"0">>, <<>>, "/HW/ADS7830/A0") }

\* startup while time passes
NextTimer ==
    \/ VarserverOpen
    \/ StoreHandle
    \/ SetupPrint
    \/ ParseChannelStep(TimerDefs)
    \/ Tick

SpecTimer == Init /\ [][NextTimer]_vars

-----------------------------------------------------------------------------
(* Vocabulary of the properties *)

BusOps == {"open", "ioctl", "write", "read", "close"}

\* the entries of a log with the given operations
Select(l, ops) == SelectSeq(l, LAMBDA e : e.op \in ops)

\* the entries of a log with the given operations that concern channel c
SelectFor(l, ops, c) == SelectSeq(l, LAMBDA e : e.op \in ops /\ e.ch = c)

\* the bus transactions begun for channel c: each begins by opening the device
Transactions(l, c) == Len(SelectFor(l, {"open"}, c))

\* the one transaction for channel c went through: device opened, address
\* set, command written, byte read
TransactionOk(l, c) ==
    /\ Len(SelectFor(l, {"read"}, c)) = 1
    /\ \A i \in 1 .. Len(l) : (l[i].op \in BusOps /\ l[i].ch = c) => l[i].ok

\* HandleSignal has just returned from handling the notification (signum, id)
Handled == MainRuns /\ pc = "loop" /\ signum \in WaitSet

\* exactly one transaction for channel c, none and no publish for any other
\* channel, and, the transaction having gone through, exactly one publish, of
\* the byte read, to handle h, after the read
SampledOnce(l, c, h) ==
    /\ Transactions(l, c) = 1
    /\ \A i \in 1 .. Len(l) : l[i].op \in (BusOps \cup {"VAR_Set"}) => l[i].ch = c
    /\ TransactionOk(l, c) =>
          /\ Len(Select(l, {"VAR_Set"})) = 1
          /\ l[Len(l)].op = "VAR_Set"
          /\ l[Len(l)].h = h
          /\ l[Len(l)].val = SelectFor(l, {"read"}, c)[1].val

-----------------------------------------------------------------------------
(* C1 *)

\* C1: handling a timer-expiry notification whose payload is the index c of a
\* bound channel performs exactly one bus transaction for channel c and, when
\* it goes through, exactly one publish of the byte read to the variable bound
\* to c; no other channel is read or published.  (Violated: HandleSignal
\* branches on the uninitialised `sig`, not on the signal received.)
C1_TimerExpirySamplesItsChannel ==
    ( /\ Handled
      /\ signum = TIMER_NOTIFICATION
      /\ id \in Channels
      /\ state.channels[id].hVar # VAR_INVALID )
    => SampledOnce(log, id, state.channels[id].hVar)

-----------------------------------------------------------------------------
(* C2 *)

\* the channels whose bound variable is the handle h
BoundTo(h) == { c \in Channels : state.channels[c].hVar = h }

\* C2: handling a recalculation notification whose payload is a valid handle h
\* bound to a channel c performs exactly one bus read of c followed by exactly
\* one publish of the byte read to h; when h matches no channel the outcome is
\* ENOENT and there is no bus read and no publish.  (Violated, as C1.)
C2_RecalcSamplesBoundChannel ==
    ( Handled /\ signum = SIG_VAR_CALC )
    => IF CastHandle(id) # VAR_INVALID /\ BoundTo(CastHandle(id)) # {}
       THEN \E c \in BoundTo(CastHandle(id)) : SampledOnce(log, c, CastHandle(id))
       ELSE /\ result = ENOENT
            /\ Select(log, BusOps \cup {"VAR_Set"}) = <<>>

-----------------------------------------------------------------------------
(* C3 *)

\* the sink of the render the latest step made: stdout at startup (-o), the
\* sink a print session yielded in the dispatcher, -1 if it rendered to none
RenderSink ==
    IF MainRuns /\ pc = "run" /\ state.output THEN STDOUT_FILENO
    ELSE IF Handled /\ Select(log, {"VAR_OpenPrintSession"}) # <<>>
                    /\ Select(log, {"VAR_OpenPrintSession"})[1].ok
    THEN Select(log, {"VAR_OpenPrintSession"})[1].h
    ELSE -1

\* the lines written, and the channel lines among them
Lines == Select(log, {"dprintf"})
ChannelLines == SelectSeq(Lines, LAMBDA e : e.ch >= 0)

\* C3: every status render to a valid sink emits the header "ADS7830 Status:",
\* the configured device path and exactly 8 channel lines, one per index 0..7
\* in increasing order, whatever the table holds and whichever reads fail.
C3_RenderEmitsEightChannelLines ==
    RenderSink # -1 =>
        /\ Lines # <<>>
        /\ \A i \in 1 .. Len(Lines) : Lines[i].h = RenderSink
        /\ Lines[1].txt = "ADS7830 Status:"
        /\ \E i \in 1 .. Len(Lines) : Lines[i].txt = "Device: " \o state.device
        /\ Len(ChannelLines) = ADS7830_NUM_CHANNELS
        /\ \A i \in 1 .. Len(ChannelLines) :
              /\ ChannelLines[i].ch = i - 1
              /\ ChannelLines[i].txt = state.channels[i - 1].name

\* a render through a print session in which a bus transaction failed, of a
\* table with a periodic channel, a bound on-demand channel and unbound ones
C3_Witness ==
    /\ Handled /\ RenderSink # -1
    /\ \E i \in 1 .. Len(log) : log[i].op \in BusOps /\ ~log[i].ok
    /\ state.channels[3].interval # 0 /\ state.channels[3].hVar # VAR_INVALID
    /\ state.channels[0].interval = 0 /\ state.channels[0].hVar # VAR_INVALID
    /\ state.channels[7].hVar = VAR_INVALID
    /\ Len(ChannelLines) = ADS7830_NUM_CHANNELS

-----------------------------------------------------------------------------
(* C4 *)

\* C4: for a channel index outside [0,7] the bus reader returns an error and
\* touches no bus, and the dispatcher, on a timer expiry carrying such an index
\* or a recalculation request that resolves to none, returns "channel not
\* found" (ENOENT) and neither opens the bus device nor issues an ioctl, write
\* or read.  (Violated, as C1: the render branch can be taken instead.)
C4_OutOfRangeNeverReadsHardware ==
    /\ \A c \in {-1, ADS7830_NUM_CHANNELS}, oc \in BusOutcomes :
          /\ ReadChannel(state, c, 0, oc, 0).result # EOK
          /\ ReadChannel(state, c, 0, oc, 0).log = <<>>
    /\ ( /\ Handled
         /\ \/ signum = TIMER_NOTIFICATION /\ id \notin Channels
            \/ signum = SIG_VAR_CALC /\ FindChannel(state, CastHandle(id)) \notin Channels )
       => /\ result = ENOENT
          /\ Select(log, BusOps) = <<>>

-----------------------------------------------------------------------------
(* C5 *)

\* C5: once run has set the running flag, every step keeps it set; handling a
\* notification, whatever its outcome, leads back to the test of the loop and
\* from there to the blocking wait; and the process ends only by the exit of a
\* termination handler.
C5_RunningUntilShutdown ==
    [][ (state.running /\ pc # "exit") =>
          /\ state'.running
          /\ pc' = "exit" => handlers # <<>>
          /\ (handlers = <<>> /\ handlers' = <<>>) =>
                pc' = CASE pc = "loop" -> "wait"
                        [] pc = "wait" -> "handle"
                        [] pc = "handle" -> "loop" ]_vars

\* back at the blocking wait after a notification whose read failed
C5_Witness ==
    /\ MainRuns /\ pc = "wait" /\ state.running
    /\ signum = TIMER_NOTIFICATION /\ result = ERRNO

-----------------------------------------------------------------------------
(* C6 *)

\* C6: a termination signal that arrives once the registry connection has
\* been obtained releases it exactly once before the process exits: it is never
\* released twice, and the process never exits through the handler with the
\* connection still held.  (Violated: a signal between VARSERVER_Open's return
\* and the store of the handle exits without release; SIGINT during SIGTERM's
\* handler, or the reverse, releases twice.)
C6_ReleasedExactlyOnce ==
    /\ closes <= 1
    /\ (pc = "exit" /\ handlers # <<>>) => conn # "open"

-----------------------------------------------------------------------------
(* Vocabulary of the properties of startup *)

\* ParseChannel has just returned from the definition LastDef
Parsed == MainRuns /\ pc = "parse" /\ defs # <<>>
LastDef == defs[Len(defs)]

\* the definition's index is missing or outside [0,7]
BadIndex(n) == ~HasKey(n, "channel") \/ atoi(n.channel) \notin Channels

\* the definition gives an interval, and it is not zero
GivesInterval(n) == HasKey(n, "interval") /\ atoi(n.interval) # 0

\* the armed timers whose expiry carries channel c, and a timer's period in ms
ArmedTimers(c) == { i \in 1 .. Len(timers) : timers[i].payload = c /\ timers[i].armed }
PeriodMs(t) == t.sec * 1000 + t.nsec \div 1000000

-----------------------------------------------------------------------------
(* C7 *)

\* C7: after population of the channel table from any list of definitions,
\* a channel is Periodic (non-zero interval) iff exactly one armed timer
\* carries its index, with a period equal to its interval; an OnDemand channel
\* has no armed timer.  (Violated: a negative interval, a second definition of
\* the same index.)
C7_PeriodicIffOneArmedTimer ==
    pc = "parse" =>
        \A c \in Channels :
            /\ (state.channels[c].interval # 0) <=>
                  /\ Cardinality(ArmedTimers(c)) = 1
                  /\ \A i \in ArmedTimers(c) : PeriodMs(timers[i]) = state.channels[c].interval
            /\ (state.channels[c].interval = 0) => ArmedTimers(c) = {}

-----------------------------------------------------------------------------
(* C8 *)

-----------------------------------------------------------------------------
(* C9 *)

\* C9: a timer is requested for a definition only if it gives an interval
\* and the interval is non-zero; for a definition with no interval or with
\* interval zero the channel is marked OnDemand and no timer is created.
\* (Violated: "interval": "0" creates a timer.)
C9_TimerOnlyForNonZeroInterval ==
    Parsed =>
        /\ Select(log, {"timer_create"}) # <<>> => GivesInterval(LastDef)
        /\ (~BadIndex(LastDef) /\ ~GivesInterval(LastDef)) =>
              /\ state.channels[atoi(LastDef.channel)].interval = 0
              /\ Select(log, {"timer_create"}) = <<>>

-----------------------------------------------------------------------------
(* C10 *)

\* C10: for a definition with a valid index and no interval or interval 0 the
\* process registers for CALC notifications on exactly the handle stored as the
\* channel's bound variable; when the definition gives no variable name or the
\* name does not resolve, no registration call is made.  (Violated: the call is
\* made with VAR_INVALID, or with the uninitialised local hVar.)
C10_CalcRegistrationOnBoundHandle ==
    (Parsed /\ ~BadIndex(LastDef) /\ ~GivesInterval(LastDef)) =>
        IF HasKey(LastDef, "var") /\ VAR_FindByName(LastDef.var) # VAR_INVALID
        THEN /\ Len(Select(log, {"VAR_Notify"})) = 1
             /\ Select(log, {"VAR_Notify"})[1].h = state.channels[atoi(LastDef.channel)].hVar
             /\ Select(log, {"VAR_Notify"})[1].txt = "NOTIFY_CALC"
        ELSE Select(log, {"VAR_Notify"}) = <<>>

-----------------------------------------------------------------------------
(* Vocabulary of the properties of ReadChannel *)

\* ReadChannel has just returned from the call for channel id
Returned == pc = "return"

\* bit k of the byte n
Bit(n, k) == (n \div (2 ^ k)) % 2

\* the command bytes the call wrote
Written == Select(log, {"write"})

-----------------------------------------------------------------------------
(* C11 *)

\* C11 (as stated): for every channel index 0..7 the command byte ReadChannel
\* writes carries the select value {0,4,1,5,2,6,3,7}[index] in bits 4..6, has
\* bit 7 set and has bits 2 and 3 both set; distinct indices yield distinct
\* command bytes.  (Violated: 0x04 sets bit 2 only.)
C11_CommandByteAsStated ==
    /\ (Returned /\ id \in Channels) =>
          \A i \in 1 .. Len(Written) :
              /\ (Written[i].val \div 16) % 8 = <<0, 4, 1, 5, 2, 6, 3, 7>>[id + 1]
              /\ Bit(Written[i].val, 7) = 1
              /\ Bit(Written[i].val, 2) = 1 /\ Bit(Written[i].val, 3) = 1
    /\ \A c \in Channels : \A d \in Channels :
          c # d => CommandByte(c) # CommandByte(d)

\* C11 (amended): the command byte carries the select value in bits 4..6, has
\* bit 7 set, and in the field of bits 2-3 has bit 2 set and bit 3 clear (A/D
\* on, reference off); bits 0 and 1 are clear; distinct indices yield distinct
\* command bytes.
C11_CommandByte ==
    /\ (Returned /\ id \in Channels) =>
          \A i \in 1 .. Len(Written) :
              /\ (Written[i].val \div 16) % 8 = <<0, 4, 1, 5, 2, 6, 3, 7>>[id + 1]
              /\ Bit(Written[i].val, 7) = 1
              /\ Bit(Written[i].val, 2) = 1 /\ Bit(Written[i].val, 3) = 0
              /\ Written[i].val % 4 = 0
              /\ Written[i].val < 256
    /\ \A c \in Channels : \A d \in Channels :
          c # d => CommandByte(c) # CommandByte(d)

\* the call for channel 1 wrote the command byte 0xC4
C11_Witness ==
    /\ Returned /\ id = 1
    /\ Len(Written) = 1 /\ Written[1].val = 196

-----------------------------------------------------------------------------
(* C12 *)

\* C12: ReadChannel uses the long-lived bus connection for the transaction
\* whenever the controller holds one (exclusive mode) and then neither opens
\* nor closes a connection; when the controller holds none it opens a
\* short-lived connection, performs the transaction on it and closes it before
\* returning.  (Violated: the test `fd == -1` is inverted, so a controller
\* holding a connection opens and closes another one for every read.)
C12_ReusesLongLivedConnection ==
    (Returned /\ id \in Channels) =>
        IF state.exclusive
        THEN /\ Select(log, {"open", "close"}) = <<>>
             /\ Select(log, {"ioctl"}) # <<>>
             /\ \A i \in 1 .. Len(log) : log[i].h = state.fd
        ELSE /\ Len(Select(log, {"open"})) = 1 /\ log[1].op = "open"
             /\ log[1].ok =>
                   /\ Len(Select(log, {"close"})) = 1
                   /\ log[Len(log)].op = "close"
                   /\ Select(log, {"ioctl"}) # <<>>
                   /\ \A i \in 1 .. Len(log) : log[i].h = log[1].h
             /\ ~log[1].ok => Len(log) = 1

-----------------------------------------------------------------------------
(* C13 *)

\* C13: ReadChannel returns EOK only if every step of the transaction (open
\* when needed, set target address, write of the command byte, read of one
\* byte) succeeded; a failure of any step makes it return the underlying
\* non-zero error code.  (Violated: the results of write() and read() are
\* ignored.)
C13_SuccessOnlyIfAllStepsSucceed ==
    (Returned /\ id \in Channels) =>
        /\ result = EOK =>
              /\ Select(log, {"read"}) # <<>>
              /\ \A i \in 1 .. Len(log) : log[i].ok
        /\ (\E i \in 1 .. Len(log) : ~log[i].ok) => result = ERRNO

-----------------------------------------------------------------------------
(* C14 *)

\* C14: for a channel armed as Periodic with interval I > 0 at time t0, no
\* timer-expiry notification carrying that channel's index is generated after
\* t0 and before t0 + I; the first occurs at t0 + I and later ones every I
\* after that.  (Violated: a second definition of the same index arms a second
\* timer and leaves the first one armed, whose expiries carry the same index.)
C14_FirstExpiryAfterInterval ==
    \A i \in 1 .. Len(timers) :
        (timers[i].armed /\ PeriodMs(timers[i]) > 0) =>
            /\ \A k \in 1 .. Len(expired) :
                  (expired[k].payload = timers[i].payload /\ expired[k].at > armedAt[i]) =>
                      /\ expired[k].at >= armedAt[i] + PeriodMs(timers[i])
                      /\ (expired[k].at - armedAt[i]) % PeriodMs(timers[i]) = 0
            /\ now >= armedAt[i] + PeriodMs(timers[i]) =>
                  \E k \in 1 .. Len(expired) :
                      /\ expired[k].payload = timers[i].payload
                      /\ expired[k].at = armedAt[i] + PeriodMs(timers[i])

-----------------------------------------------------------------------------
(* C15 *)

\* the print subscription has been made (SetupPrintNotifications has run)
Subscribed == pc \in {"parse", "run", "loop", "wait", "handle"}

\* C15: in every state from the moment the first timer is armed or the first
\* notification subscription is made, the three notification signals are
\* blocked, so that a notification is consumed only by the blocking wait.
\* (Violated: the signals are blocked by WaitSignal only, which first runs
\* after startup.)
C15_NotificationsMasked ==
    (pc # "exit" /\ (Subscribed \/ \E i \in 1 .. Len(timers) : timers[i].armed)) =>
        WaitSet \subseteq blocked

-----------------------------------------------------------------------------
(* C16 *)

\* the definition is written as in the documented example: its index under
\* the key "line", with "var" and "mode"
Documented(n) ==
    /\ {"line", "var", "mode"} \subseteq n.keys /\ ~HasKey(n, "channel")
    /\ atoi(n.line) \in Channels

\* C16: a channel definition written as in the documented configuration
\* example populates the channel table entry of its index: the entry is bound
\* to the definition's variable and is Periodic when the definition gives an
\* interval.  (Violated: ParseChannel reads the index from the key "channel",
\* so a definition that gives it under "line" is skipped.)
C16_DocumentedExamplePopulates ==
    (Parsed /\ Documented(LastDef)) =>
        /\ state.channels[atoi(LastDef.line)].hVar = VAR_FindByName(LastDef.var)
        /\ state.channels[atoi(LastDef.line)].name = LastDef.var
        /\ HasKey(LastDef, "interval") =>
              /\ state.channels[atoi(LastDef.line)].interval = atoi(LastDef.interval)
              /\ ArmedTimers(atoi(LastDef.line)) # {}

-----------------------------------------------------------------------------
(* C17 *)

\* the print session calls of the latest step
Opens == Select(log, {"VAR_OpenPrintSession"})
Closes == Select(log, {"VAR_ClosePrintSession"})

\* C17: for every status-print notification the dispatcher performs, in this
\* order and each exactly once: open the print session for the requesting
\* session id, render the status to the sink the open yielded, close that
\* print session; nothing is rendered to, and no close is issued for, a sink
\* the open did not yield.  (Violated: HandleSignal branches on the
\* uninitialised `sig`; and it closes the session with fd -1 when the open
\* yields no sink.)
C17_PrintSessionProtocol ==
    (Handled /\ signum = SIG_VAR_PRINT) =>
        /\ Len(Opens) = 1 /\ log[1].op = "VAR_OpenPrintSession"
        /\ Opens[1].val = id
        /\ Opens[1].ok =>
              /\ Lines # <<>>
              /\ \A i \in 1 .. Len(Lines) : Lines[i].h = Opens[1].h
              /\ Len(Closes) = 1 /\ log[Len(log)].op = "VAR_ClosePrintSession"
              /\ Closes[1].h = Opens[1].h /\ Closes[1].val = id
        /\ ~Opens[1].ok => (Lines = <<>> /\ Closes = <<>>)

-----------------------------------------------------------------------------
(* C18 *)

\* the byte channel c's transaction of the latest step read, if it read one
BytesRead(c) == SelectSeq(SelectFor(log, {"read"}, c), LAMBDA e : e.ok)

-----------------------------------------------------------------------------
(* C19 *)

\* C19: a notification of none of the three classes is reported as ENOTSUP
\* and causes no bus transaction, no publish and no print session; and the
\* branch HandleSignal takes is always the one of the class of the
\* notification the wait returned: a print request opens and closes a print
\* session, a timer expiry or a recalculation request opens none, and none of
\* the three is reported as ENOTSUP.  (Violated: the branch is chosen by the
\* uninitialised `sig`.  The wait returns notifications of the three classes
\* only, so the first part has no case of its own.)
C19_BranchMatchesNotification ==
    Handled =>
        /\ signum \notin WaitSet => (result = ENOTSUP /\ log = <<>>)
        /\ signum = SIG_VAR_PRINT => (result = EOK /\ Opens # <<>> /\ Closes # <<>>)
        /\ signum \in {TIMER_NOTIFICATION, SIG_VAR_CALC} =>
              (result # ENOTSUP /\ Opens = <<>> /\ Closes = <<>> /\ Lines = <<>>)

-----------------------------------------------------------------------------
(* C20 *)

\* C20: nothing is retried: handling one timer-expiry or recalculation
\* notification makes at most one bus transaction and at most one publish,
\* also when the read or the publish fails.  (Violated: HandleSignal branches
\* on the uninitialised `sig`, so such a notification can run the render,
\* which reads all 8 channels.)
C20_NoRetry ==
    (Handled /\ signum \in {TIMER_NOTIFICATION, SIG_VAR_CALC}) =>
        /\ Len(Select(log, {"open"})) <= 1
        /\ Len(Select(log, {"ioctl"})) <= 1
        /\ Len(Select(log, {"write"})) <= 1
        /\ Len(Select(log, {"read"})) <= 1
        /\ Len(Select(log, {"VAR_Set"})) <= 1

-----------------------------------------------------------------------------
(* C21 *)

\* C21: SampleChannel publishes only a byte the device returned in the same
\* call: when the bus transaction did not complete (open, address set, command
\* write or data read failed) no publish is made, and a publish carries the
\* byte read, zero-extended to 16 bits.  (Violated: ReadChannel returns EOK
\* when write() or read() failed, and SampleChannel then publishes its local
\* `data`, which a failed read leaves uninitialised.)
C21_PublishesOnlyByteRead ==
    Handled =>
        \A i \in 1 .. Len(log) :
            log[i].op = "VAR_Set" =>
                /\ TransactionOk(log, log[i].ch)
                /\ log[i].val = SelectFor(log, {"read"}, log[i].ch)[1].val
                /\ log[i].val \in 0 .. 255

-----------------------------------------------------------------------------
(* C22 *)

\* C22: for an unbound channel a timer-expiry notification carrying its index
\* causes no bus transaction and no publish and reports an error; the set
\* operation is never called with the invalid handle.  (Violated: HandleSignal
\* branches on the uninitialised `sig`, so the expiry can run the render or be
\* looked up as a variable handle.)
C22_UnboundChannelNotSampled ==
    /\ (Handled /\ signum = TIMER_NOTIFICATION /\ id \in Channels
            /\ state.channels[IF id \in Channels THEN id ELSE 0].hVar = VAR_INVALID) =>
          /\ Select(log, BusOps) = <<>>
          /\ Select(log, {"VAR_Set"}) = <<>>
          /\ result # EOK
    /\ \A i \in 1 .. Len(log) : log[i].op = "VAR_Set" => log[i].h # VAR_INVALID

-----------------------------------------------------------------------------
(* C23 *)

\* the channels of the table bound to the handle h
Matches(h) == { c \in Channels : state.channels[c].hVar = h }

\* C23: FindChannel returns the lowest index whose bound handle equals h when
\* h is a valid handle and such an index exists, and -1 otherwise: the invalid
\* handle matches no (unbound) channel, and of two channels bound to the same
\* variable the lower-indexed one is selected.
C23_FindChannelLowestMatch ==
    Returned =>
        IF id # VAR_INVALID /\ Matches(id) # {}
        THEN /\ result \in Matches(id)
             /\ \A c \in Matches(id) : result <= c
        ELSE result = -1

\* channels 2 and 6 are bound to the handle asked for and 2 is returned,
\* while channel 0 is unbound
C23_Witness ==
    /\ Returned /\ id = 6
    /\ Matches(id) = {2, 6} /\ result = 2
    /\ state.channels[0].hVar = VAR_INVALID

-----------------------------------------------------------------------------
(* C24 *)

\* C24: once startup has populated the channel table, every step of the
\* dispatch loop, and so the handling of any notification, leaves every
\* channel entry (index, bound handle, name, interval, timer), the timers, the
\* bus device path, the bus address and the connection handle unchanged.
C24_DispatchLeavesTableUnchanged ==
    [][ (pc \in {"loop", "wait", "handle"}) =>
          /\ state'.channels = state.channels
          /\ timers' = timers
          /\ state'.device = state.device
          /\ state'.address = state.address
          /\ state'.fd = state.fd ]_vars

\* a timer expiry has been handled by a read and a publish for the periodic
\* channel 3 of a table that also has a bound on-demand channel
C24_Witness ==
    /\ Handled /\ signum = TIMER_NOTIFICATION /\ id = 3
    /\ state.channels[3].interval # 0 /\ state.channels[3].hVar # VAR_INVALID
    /\ state.channels[0].hVar # VAR_INVALID
    /\ Select(log, {"VAR_Set"}) # <<>>
    /\ timers # <<>>

-----------------------------------------------------------------------------
(* C25 *)

\* the connections the call opened, and the close calls it made
Opened == SelectSeq(log, LAMBDA e : e.op = "open" /\ e.ok)
Closed == Select(log, {"close"})

\* C25: every bus connection ReadChannel opens itself is closed before it
\* returns, on the success path and on every failure path, so that no
\* short-lived connection is open between two calls; ReadChannel closes
\* nothing else, in particular never the controller's long-lived connection.
C25_OpenedConnectionClosed ==
    Returned =>
        /\ Len(Opened) = Len(Closed)
        /\ Len(Opened) <= 1
        /\ Opened # <<>> =>
              /\ log[Len(log)].op = "close"
              /\ Closed[1].h = Opened[1].h
        /\ \A i \in 1 .. Len(Closed) :
              state.exclusive => Closed[i].h # state.fd

\* the call of a controller that holds a long-lived connection opened a
\* connection, failed to set the address, and closed what it had opened
C25_Witness ==
    /\ Returned /\ state.exclusive
    /\ Opened # <<>> /\ Closed # <<>>
    /\ \E i \in 1 .. Len(log) : log[i].op = "ioctl" /\ ~log[i].ok
    /\ result = ERRNO

-----------------------------------------------------------------------------
(* C26 *)

\* the timer the latest definition created
LastTimer == timers[Len(timers)]

\* C26: for every interval I > 0 in milliseconds CreateTimer arms the timer
\* with an initial delay and a period that both equal exactly I: seconds =
\* I div 1000, nanoseconds = (I mod 1000) * 1000000 with 0 <= nanoseconds <
\* 10^9, and seconds * 1000 + nanoseconds / 10^6 = I; the payload of the
\* timer's notification is the channel index passed in.
C26_TimerArmedWithExactInterval ==
    (Parsed /\ ~BadIndex(LastDef) /\ HasKey(LastDef, "interval")
            /\ atoi(LastDef.interval) > 0) =>
        /\ timers # <<>>
        /\ LastTimer.armed
        /\ LastTimer.payload = atoi(LastDef.channel)
        /\ LastTimer.vsec = atoi(LastDef.interval) \div 1000
        /\ LastTimer.vnsec = (atoi(LastDef.interval) % 1000) * 1000000
        /\ LastTimer.sec = LastTimer.vsec /\ LastTimer.nsec = LastTimer.vnsec
        /\ 0 <= LastTimer.vnsec /\ LastTimer.vnsec < 1000000000
        /\ LastTimer.vsec * 1000 + LastTimer.vnsec \div 1000000 = atoi(LastDef.interval)
        /\ \E i \in 1 .. Len(log) :
              /\ log[i].op = "timer_settime" /\ log[i].ok
              /\ log[i].val = atoi(LastDef.interval)

\* channel 7 armed with 1500 ms after channel 3 was armed with INT_MAX ms
C26_Witness ==
    /\ Parsed /\ Len(defs) = 2
    /\ atoi(defs[1].interval) = 2147483647 /\ timers[1].vsec = 2147483
    /\ timers[1].vnsec = 647000000 /\ timers[1].payload = 3
    /\ atoi(LastDef.interval) = 1500 /\ LastTimer.payload = 7
    /\ LastTimer.vsec = 1 /\ LastTimer.vnsec = 500000000 /\ LastTimer.armed

-----------------------------------------------------------------------------
(* C27 *)

\* the arguments of the PrintStatus call are a state object and a sink
ValidRenderArgs == pADS7830State # NULLPTR /\ id # -1

\* C27: PrintStatus returns EOK whenever it is given a valid controller state
\* and a valid sink and has written the status; it returns EINVAL only for
\* invalid arguments (null state or sink -1), and then it writes nothing and
\* performs no bus read.
C27_PrintStatusReturnsEOK ==
    Returned =>
        /\ (ValidRenderArgs /\ Lines # <<>>) => result = EOK
        /\ result = EINVAL => (~ValidRenderArgs /\ log = <<>>)

=============================================================================
